---- MODULE Spec2Model ----
(***************************************************************************)
(* Loop-closure consistency engine of LiCSBAS12_loop_closure.py.           *)
(*                                                                         *)
(* Phases are integers in units of pi/4 (Pi = 4).  A raster is one row of  *)
(* `width` pixels.  Value 0 is the no-data value of the input rasters and  *)
(* NaN the value written by nullification; both read as "no data".         *)
(* The disk state (current rasters, preserved originals) persists over     *)
(* runs; one run of main() is the chain of actions Start .. Nullify.       *)
(* The specifications of a run share Next and differ in the disk inputs.   *)
(* SpecFan follows the vote loop of the 4th pass on a network of many      *)
(* loops, SpecMerge the merge of two cum.h5 files by LiCSBAS17.py.         *)
(***************************************************************************)
EXTENDS Integers, Sequences, FiniteSets, TLC

\* ------------------------------------------------------------------ bounds
NEpoch == 4
width == 2
MaxFaults == 1
MaxRm == 1
MaxPara == 2
NPair == 2

\* --------------------------------------------------------------- constants
Pi == 4
TwoPi == 2 * Pi
NaN == -999
loop_thre == 5
nullify_threshold == Pi

Epochs == 1..NEpoch
Pix == 1..width
AllEdges == {e \in Epochs \X Epochs : e[1] < e[2]}

\* ---------------------------------------------------------------- helpers
Abs(x) == IF x < 0 THEN 0 - x ELSE x

IsNaN(v) == v = NaN

\* f itself, held as a table of its values
Tab(f) == f @@ f

RECURSIVE SumOver(_, _)
SumOver(S, f) ==
  IF S = {} THEN 0
  ELSE LET x == CHOOSE y \in S : TRUE IN f[x] + SumOver(S \ {x}, f)

MinOf(S) == CHOOSE x \in S : \A y \in S : x <= y
MaxOf(S) == CHOOSE x \in S : \A y \in S : x >= y

\* np.round: round half to even, of the rational num/den (den > 0)
NpRound(num, den) ==
  LET q == num \div den
      r == num - q * den
  IN  IF 2 * r < den THEN q
      ELSE IF 2 * r > den THEN q + 1
      ELSE IF q % 2 = 0 THEN q ELSE q + 1

\* k-th smallest (1-based) of the values f[p], p \in S
Kth(S, f, k) ==
  LET V == {f[p] : p \in S}
  IN  CHOOSE v \in V : /\ Cardinality({p \in S : f[p] < v}) < k
                       /\ Cardinality({p \in S : f[p] <= v}) >= k

\* twice np.nanmedian of f over the non-NaN pixels S (S non-empty)
NanMedian2(S, f) ==
  LET n == Cardinality(S)
  IN  IF n % 2 = 1 THEN 2 * Kth(S, f, (n + 1) \div 2)
      ELSE Kth(S, f, n \div 2) + Kth(S, f, n \div 2 + 1)

\* ------------------------------------------------------------ input rasters
\* A consistent phase (3 cycles per epoch step) plus a small closure noise.
Noise(e, p) == (e[1] + p) % 2
BaseUnw(e) == [p \in Pix |-> 3 * TwoPi * (e[2] - e[1]) + Noise(e, p)]

FaultKinds == {"nodata", "plus2pi", "minus2pi"}
FaultSites == AllEdges \X Pix \X FaultKinds

ApplyFault(v, kind) ==
  CASE kind = "nodata" -> 0
    [] kind = "plus2pi" -> v + TwoPi
    [] kind = "minus2pi" -> v - TwoPi
    [] kind = "plus3q" -> v + 3
    [] kind = "plus5q" -> v + 5

\* the raster of edge e under the fault set F (at most one fault per pixel)
InputUnw(e, F) ==
  [p \in Pix |->
     IF \E f \in F : f[1] = e /\ f[2] = p
     THEN LET f == CHOOSE g \in F : g[1] = e /\ g[2] = p
          IN  ApplyFault(BaseUnw(e)[p], f[3])
     ELSE BaseUnw(e)[p]]

\* the fault sets of at most n faults on the edges E, one per pixel at most
RECURSIVE FaultSets(_, _)
FaultSets(E, n) ==
  IF n = 0 THEN {{}}
  ELSE LET Prev == FaultSets(E, n - 1)
       IN  Prev \cup
           {F \cup {f} : F \in Prev, f \in {g \in FaultSites : g[1] \in E}}

OnePerPixel(F) == \A f, g \in F : (f[1] = g[1] /\ f[2] = g[2]) => f = g

\* ------------------------------------------------------------------- state
VARIABLES
  ifgdates,        \* the edges of the network (set of epoch pairs)
  unw,             \* disk: current raster <ifgd>.unw of every edge
  ori,             \* disk: preserved originals <ifgd>.unw.ori (partial function)
  pc,              \* position of the run inside main()
  err,             \* "none" or the exception that ended the run
  multi_prime, rm_ifg, nullify, save_ori_unw, treat_as_bad,   \* options
  no_loop_ifg, bad_ifg1, bad_ifg, bad_ifg_cand, good_ifg,     \* pass 1
  loop_ph_rms_ifg,
  n_unw, ns_loop_ph, ns_bad_loop, loop_ph_rms_points,         \* pass 2
  refarea,         \* <<refx1, refx2>> (pixels refx1+1 .. refx2), <<>> if unset
  noref_ifg,
  loop_ph_rms_ifg2, bad_ifg_cand2, good_ifg2, bad_ifg2,       \* pass 3
  bad_ifg_all, bad_ifg_cand_res,
  da, ns_loop_err, ns_loop_all, ns_loop_bad,                  \* pass 4
  n_nullify,       \* per-pixel count of nullified edges
  written,         \* edges whose raster this run has rewritten
  unw_before,      \* history: the current rasters as this run found them
  ori_before,      \* history: the preserved originals as this run found them
  outdirs,         \* this run has created, moved or removed output directories
  f_old, f_new,    \* LiCSBAS17: TS_*/cum.h5 and TS_*_update/cum.h5
  f_out,           \* LiCSBAS17: TS_*/cum_update.h5
  fan              \* the counters of one ifg and pixel inside the vote loop of
                   \* loop_closure_4th, for a network whose loops all hold the ifg

diskvars == <<ifgdates, unw, ori>>
histvars == <<unw_before, ori_before>>
optvars == <<multi_prime, rm_ifg, nullify, save_ori_unw, treat_as_bad>>
p1vars == <<no_loop_ifg, bad_ifg1, bad_ifg, bad_ifg_cand, good_ifg, loop_ph_rms_ifg>>
p2vars == <<n_unw, ns_loop_ph, ns_bad_loop, loop_ph_rms_points>>
p3vars == <<loop_ph_rms_ifg2, bad_ifg_cand2, good_ifg2, bad_ifg2, bad_ifg_all,
            bad_ifg_cand_res>>
p4vars == <<da, ns_loop_err, ns_loop_all, ns_loop_bad>>
h5vars == <<f_old, f_new, f_out>>
vars == <<diskvars, pc, err, optvars, p1vars, p2vars, refarea, noref_ifg, p3vars,
          p4vars, n_nullify, written, histvars, outdirs, h5vars, fan>>

\* ------------------------------------------------------------ loop matrix
\* rows for every two ifgs that share an epoch, closed or not
make_loop_matrix_open(ifgs) ==
  {<<a[1], a[2], b[2]>> : <<a, b>> \in {x \in ifgs \X ifgs : x[1][2] = x[2][1]}}
\* loop_lib.make_loop_matrix: one row per triple a<b<c whose three edges exist
make_loop_matrix(ifgs) ==
  {<<a[1], a[2], b[2]>> : <<a, b>> \in
     {x \in ifgs \X ifgs : x[1][2] = x[2][1] /\ <<x[1][1], x[2][2]>> \in ifgs}}

Aloop == make_loop_matrix(ifgdates)
n_loop == Cardinality(Aloop)

\* the columns holding +1, +1 and -1 in a row of Aloop
ifgd12(l) == <<l[1], l[2]>>
ifgd23(l) == <<l[2], l[3]>>
ifgd13(l) == <<l[1], l[3]>>
LoopIfgs(l) == {ifgd12(l), ifgd23(l), ifgd13(l)}
\* the row of Aloop for loop l: +1, +1, -1 in the columns of its ifgs
AloopRow(l) ==
  [e \in ifgdates |->
     IF e = ifgd12(l) \/ e = ifgd23(l) THEN 1 ELSE IF e = ifgd13(l) THEN -1 ELSE 0]
LoopsOf(e) == {l \in Aloop : e \in LoopIfgs(l)}

\* ------------------------------------------------------------ raster reads
FillNaN(r) == Tab([p \in Pix |-> IF r[p] = 0 THEN NaN ELSE r[p]])

\* loop_lib.read_unw_loop_ph: the current .unw of an edge, 0 filled with nan
read_unw_loop_ph(e) == FillNaN(unw[e])

\* main: the .unw.ori if it exists, else the .unw
read_unw_main(e) == FillNaN(IF e \in DOMAIN ori THEN ori[e] ELSE unw[e])

Valid(f) == {p \in Pix : ~IsNaN(f[p])}

\* unw12 + unw23 - unw13 (nan where any of the three is nan)
LoopPh(l) ==
  LET u12 == read_unw_loop_ph(ifgd12(l))
      u23 == read_unw_loop_ph(ifgd23(l))
      u13 == read_unw_loop_ph(ifgd13(l))
  IN  Tab([p \in Pix |->
         IF IsNaN(u12[p]) \/ IsNaN(u23[p]) \/ IsNaN(u13[p]) THEN NaN
         ELSE u12[p] + u23[p] - u13[p]])

\* ----------------------------------------------- 2pi de-biasing (pass 1, 2)
\* Returns TWICE the de-biased loop phase (the multi_prime bias is a median,
\* hence a multiple of 1/2); all nan if the loop has no valid pixel.
Unbias(lp, mp) ==
  LET V == Valid(lp)
  IN  IF V = {} THEN lp
      ELSE LET n2pi == NpRound(NanMedian2(V, lp), 2 * TwoPi)
               lp1 == Tab([p \in Pix |-> IF p \in V THEN lp[p] - n2pi * TwoPi ELSE NaN])
               bias2 == IF mp THEN NanMedian2(V, lp1) ELSE 0
           IN  Tab([p \in Pix |-> IF p \in V THEN 2 * lp1[p] - bias2 ELSE NaN])

SumSq(f) == SumOver(Valid(f), [p \in Pix |-> f[p] * f[p]])

\* An RMS value sqrt(ss / (sc^2 * n)), or the sentinels inf / nan
RmsVal(ss, n, sc) == [kind |-> "val", ss |-> ss, n |-> n, sc |-> sc]
RmsInf == [kind |-> "inf", ss |-> 0, n |-> 0, sc |-> 1]
RmsNaN == [kind |-> "nan", ss |-> 0, n |-> 0, sc |-> 1]

\* rms >= thre
RmsGE(r, thre) ==
  CASE r.kind = "inf" -> TRUE
    [] r.kind = "nan" -> FALSE
    [] OTHER -> r.ss >= thre * thre * r.sc * r.sc * r.n

\* --------------------------------------------------------------- 1st pass
loop_closure_1st_wrapper_nan(l) ==
  LET d == Unbias(LoopPh(l), multi_prime)
  IN  IF Valid(d) = {} THEN RmsNaN
      ELSE RmsVal(SumSq(d), Cardinality(Valid(d)), 2)
\* 1071-1127: the scalar RMS of loop l, inf if the loop has no valid pixel
loop_closure_1st_wrapper(l) ==
  LET d == Unbias(LoopPh(l), multi_prime)
  IN  IF Valid(d) = {} THEN RmsInf
      ELSE RmsVal(SumSq(d), Cardinality(Valid(d)), 2)

IsBadLoop_hi(r) == RmsGE(r, loop_thre + 1)
\* main 375-379: the loop is listed as bad
IsBadLoop(r) == RmsGE(r, loop_thre)

\* loop_lib.identify_bad_ifg: candidates that are in no good loop
identify_bad_ifg(cand, good) == cand \ good

\* --------------------------------------------------------------- 2nd pass
\* order of the rows of Aloop (by ifgd12, then ifgd23)
LoopLess(l, m) ==
  \/ l[1] < m[1]
  \/ l[1] = m[1] /\ l[2] < m[2]
  \/ l[1] = m[1] /\ l[2] = m[2] /\ l[3] < m[3]
LoopIx(l) == Cardinality({m \in Aloop : LoopLess(m, l)})
LoopRange_incl(i0, i1) == {l \in Aloop : i0 <= LoopIx(l) /\ LoopIx(l) <= i1}
\* 1145: the rows range(i0, i1) of Aloop
LoopRange(i0, i1) == {l \in Aloop : i0 <= LoopIx(l) /\ LoopIx(l) < i1}

CeilDiv(a, b) == (a + b - 1) \div b

\* tools_lib.get_patchrow(1, n_loop, 2**20/4, ceil(n_loop/n_para)): the slices
get_patchrow(n, n_para) ==
  LET memory_size == CeilDiv(n, n_para)
      n_patch == CeilDiv(n, memory_size)
      rowspacing == CeilDiv(n, n_patch)
  IN  {<<i * rowspacing, IF i = n_patch - 1 THEN n ELSE (i + 1) * rowspacing>> :
         i \in 0..(n_patch - 1)}

Skip2_none(l) == FALSE
\* 1153-1155: a loop with a bad ifg is skipped
Skip2(l) == LoopIfgs(l) \cap bad_ifg # {}

\* One worker: the three partial rasters of the loops [i0, i1).
\* loop_ph_rms_points1 is kept as the sum of (2*loop_ph)^2 = 4 * sum of squares.
loop_closure_2nd_wrapper(args) ==
  LET L == {l \in LoopRange(args[1], args[2]) : ~Skip2(l)}
      dd == Tab([l \in L |-> Unbias(LoopPh(l), multi_prime)])
      d(l) == dd[l]
  IN  [ns_loop_ph1 |-> [p \in Pix |-> Cardinality({l \in L : ~IsNaN(d(l)[p])})],
       ns_bad_loop1 |->
         [p \in Pix |-> Cardinality({l \in L : /\ ~IsNaN(d(l)[p])
                                               /\ d(l)[p] * d(l)[p] > 4 * Pi * Pi})],
       loop_ph_rms_points1 |->
         [p \in Pix |-> SumOver({l \in L : ~IsNaN(d(l)[p])},
                                [l \in L |-> d(l)[p] * d(l)[p]])]]

\* 437-441: np.sum(res[:, k], axis=0)
ReduceSum(res, slices, field) ==
  Tab([p \in Pix |-> SumOver(slices, [a \in slices |-> res[a][field][p]])])

\* 408-422: number of valid unw per pixel over the ifgs not in bad_ifg
Compute_n_unw ==
  [p \in Pix |-> Cardinality({e \in ifgdates \ bad_ifg : ~IsNaN(read_unw_main(e)[p])})]

\* -------------------------------------------------- reference selection
\* 446: mask1
Mask1(p) == n_unw[p] = MaxOf({n_unw[q] : q \in Pix})

RECURSIVE Escalate_unmasked(_)
Escalate_unmasked(m) ==
  IF \E p \in Pix : ns_bad_loop[p] = m THEN m ELSE Escalate_unmasked(m + 1)
\* 447-453: raise min_ns_bad_loop until mask1 * mask2 is not all masked
RECURSIVE Escalate(_)
Escalate(m) ==
  IF \E p \in Pix : Mask1(p) /\ ns_bad_loop[p] = m THEN m ELSE Escalate(m + 1)

min_ns_bad_loop == Escalate(MinOf({ns_bad_loop[p] : p \in Pix}))

Mask2(p) == ns_bad_loop[p] = min_ns_bad_loop

\* 443, 454-455: loop_ph_rms_points_masked is not nan at p.
\* loop_ph_rms_points = sqrt(S^2 / ns_loop_ph) with S the sum of squares
\* (the code squares the sum); it is nan where ns_loop_ph = 0 and where the
\* product with the masks is 0.
MaskedNotNaN(p) ==
  /\ ns_loop_ph[p] # 0
  /\ Mask1(p) /\ Mask2(p)
  /\ loop_ph_rms_points[p] # 0

\* loop_ph_rms_points_masked[p] < loop_ph_rms_points_masked[q]
MaskedLess(p, q) ==
  loop_ph_rms_points[p] * loop_ph_rms_points[p] * ns_loop_ph[q]
    < loop_ph_rms_points[q] * loop_ph_rms_points[q] * ns_loop_ph[p]

\* 556-558: pixels equal to the nanmin, the first one taken; {} if all nan
RefCandidates ==
  {p \in Pix : MaskedNotNaN(p) /\ \A q \in Pix : MaskedNotNaN(q) => ~MaskedLess(q, p)}

\* pixels refx1+1 .. refx2 of an area <<refx1, refx2>>
RefPix(area) == {p \in Pix : area[1] < p /\ p <= area[2]}

\* the areas a 120ref.txt may hold
RefAreas == {a \in (0..width) \X (0..width) : a[1] < a[2]}

\* 579-593: no valid value inside the reference area
NoRef(e) == \A p \in RefPix(refarea) : IsNaN(read_unw_main(e)[p])

\* --------------------------------------------------------------- 3rd pass
RECURSIVE Fact(_)
Fact(n) == IF n <= 1 THEN 1 ELSE n * Fact(n - 1)
\* phases relative to the reference are kept multiplied by RefScale, so that
\* the mean over any number of reference pixels is an integer
RefScale == Fact(width)

\* RefScale * np.nanmean(unw[ref area]); NaN if no valid value
RefMean(u) ==
  LET V == {p \in RefPix(refarea) : ~IsNaN(u[p])}
  IN  IF V = {} THEN NaN
      ELSE (RefScale \div Cardinality(V)) * SumOver(V, u)

\* RefScale * (unw12 + unw23 - unw13 - (ref_unw12 + ref_unw23 - ref_unw13))
LoopPhRef(l) ==
  LET r12 == RefMean(read_unw_loop_ph(ifgd12(l)))
      r23 == RefMean(read_unw_loop_ph(ifgd23(l)))
      r13 == RefMean(read_unw_loop_ph(ifgd13(l)))
      lp == LoopPh(l)
  IN  IF IsNaN(r12) \/ IsNaN(r23) \/ IsNaN(r13) THEN Tab([p \in Pix |-> NaN])
      ELSE Tab([p \in Pix |-> IF IsNaN(lp[p]) THEN NaN
                              ELSE RefScale * lp[p] - (r12 + r23 - r13)])

\* 1196-1202: skipped loops return nan
Skip3(l) == LoopIfgs(l) \cap bad_ifg # {} \/ LoopIfgs(l) \cap noref_ifg # {}

loop_closure_3rd_wrapper(l) ==
  IF Skip3(l) THEN RmsNaN
  ELSE LET d == LoopPhRef(l)
       IN  IF Valid(d) = {} THEN RmsNaN
           ELSE RmsVal(SumSq(d), Cardinality(Valid(d)), RefScale)

RemainingCand_all(cand, all) == cand
\* 658: the candidates of the 3rd pass that are not in the final bad list
RemainingCand(cand, all) == cand \ all

\* 620-625
IsSkippedLoop2(r) == r.kind = "nan"
IsBadLoop2(r) == ~IsSkippedLoop2(r) /\ RmsGE(r, loop_thre)

\* --------------------------------------------------------------- 4th pass
Wrap_int8(x) == ((x + 128) % 256) - 128
Wrap_uint8(x) == x % 256

LoopAt(i) == CHOOSE l \in Aloop : LoopIx(l) = i

Skip4_none(l) == FALSE
\* 1282-1285
Skip4(l) == LoopIfgs(l) \cap bad_ifg_all # {}

\* 1293: index (0..6) of the bin of np.arange(-3.5, 4.5, 1) holding x / 2pi,
\* for x (times RefScale) inside [-3.5, 3.5] cycles; the last bin is closed
InHistRange(x) ==
  /\ 2 * x >= 0 - 7 * RefScale * TwoPi
  /\ 2 * x <= 7 * RefScale * TwoPi
HistBin(x) ==
  IF 2 * x = 7 * RefScale * TwoPi THEN 6
  ELSE (2 * x + 7 * RefScale * TwoPi) \div (2 * RefScale * TwoPi)

\* 1293-1294: round(k[np.argmax(peaks)] + 0.1), the cycle number of the
\* first fullest bin (bin 0, i.e. -3, when no value is counted)
HistCycle(lp) ==
  LET C == {p \in Valid(lp) : InHistRange(lp[p])}
      peaks == Tab([b \in 0..6 |-> Cardinality({p \in C : HistBin(lp[p]) = b})])
      top == MaxOf({peaks[b] : b \in 0..6})
      argmax == MinOf({b \in 0..6 : peaks[b] = top})
  IN  argmax - 3

\* 1291-1294: the loop phase w.r.t. the reference, integer cycle removed
LoopPh4(l) ==
  LET lp == LoopPhRef(l)
      k == HistCycle(lp)
  IN  Tab([p \in Pix |-> IF IsNaN(lp[p]) THEN NaN ELSE lp[p] - k * TwoPi * RefScale])

IsOk_le(lp, p) == IsNaN(lp[p]) \/ Abs(lp[p]) <= nullify_threshold * RefScale
\* 1303-1307: nan is set to 0 first, so a pixel without loop phase is ok
IsOk(lp, p) == IsNaN(lp[p]) \/ Abs(lp[p]) < nullify_threshold * RefScale

MergeMask_or(old, ok, tab) == old \/ ok
\* 1310-1319: the merge of a loop's verdict into the mask of one of its ifgs
MergeMask(old, ok, tab) == IF tab THEN old /\ ok ELSE old \/ ok

InitDa_flipped(tab) == Tab([e \in ifgdates |-> Tab([p \in Pix |-> ~tab])])
\* 671-676: the initial value of the mask cube
InitDa(tab) == Tab([e \in ifgdates |-> Tab([p \in Pix |-> tab])])

ZeroCube == Tab([e \in ifgdates |-> Tab([p \in Pix |-> 0])])

\* 1275-1326: one iteration of the first loop of loop_closure_4th
Step4a(l, acc, tab) ==
  IF Skip4(l) THEN acc
  ELSE LET lp == LoopPh4(l)
           E == LoopIfgs(l)
           ok == Tab([p \in Pix |-> IsOk(lp, p)])
       IN  [da |-> Tab([e \in ifgdates |->
                      IF e \in E
                      THEN Tab([p \in Pix |-> MergeMask(acc.da[e][p], ok[p], tab)])
                      ELSE acc.da[e]]),
            ns_loop_all |-> Tab([e \in ifgdates |->
                      IF e \in E
                      THEN Tab([p \in Pix |->
                             IF ~IsNaN(lp[p]) THEN Wrap_int8(acc.ns_loop_all[e][p] + 1)
                             ELSE acc.ns_loop_all[e][p]])
                      ELSE acc.ns_loop_all[e]]),
            ns_loop_bad |-> Tab([e \in ifgdates |->
                      IF e \in E
                      THEN Tab([p \in Pix |->
                             IF ~ok[p] THEN Wrap_int8(acc.ns_loop_bad[e][p] + 1)
                             ELSE acc.ns_loop_bad[e][p]])
                      ELSE acc.ns_loop_bad[e]]),
            ns_loop_err1 |-> Tab([p \in Pix |->
                      IF ~ok[p] THEN Wrap_uint8(acc.ns_loop_err1[p] + 1)
                      ELSE acc.ns_loop_err1[p]])]

RECURSIVE Fold4a(_, _, _, _)
Fold4a(i, i1, acc, tab) ==
  IF i >= i1 THEN acc ELSE Fold4a(i + 1, i1, Step4a(LoopAt(i), acc, tab), tab)

\* 1361-1372: bad / all of an ifg at a pixel as <<num, den>>, nan set to 0
Ratio(acc, e, p) ==
  IF acc.ns_loop_all[e][p] = 0 THEN <<0, 1>>
  ELSE <<acc.ns_loop_bad[e][p], acc.ns_loop_all[e][p]>>

RatioLess(a, b) == a[1] * b[2] < b[1] * a[2]

\* 1376-1377: np.nanargmax over (ratio1, ratio2, ratio3): first maximum
ArgMax3(r1, r2, r3) ==
  IF ~RatioLess(r1, r2) /\ ~RatioLess(r1, r3) THEN 0
  ELSE IF ~RatioLess(r2, r3) THEN 1 ELSE 2

\* 1378
MaxIsZero(r1, r2, r3) == r1[1] = 0 /\ r2[1] = 0 /\ r3[1] = 0

\* the ifg of loop l whose mask is downgraded at pixel p, as a set
Blamed(l, acc, p) ==
  LET r1 == Ratio(acc, ifgd12(l), p)
      r2 == Ratio(acc, ifgd23(l), p)
      r3 == Ratio(acc, ifgd13(l), p)
      n_index == ArgMax3(r1, r2, r3)
  IN  IF MaxIsZero(r1, r2, r3) THEN {}
      ELSE IF n_index = 0 THEN {ifgd12(l)}
      ELSE IF n_index = 1 THEN {ifgd23(l)} ELSE {ifgd13(l)}

\* 1355-1384: one iteration of the second loop (no loop is skipped here)
Step4b(l, acc) ==
  LET blamed == Tab([p \in Pix |-> Blamed(l, acc, p)])
  IN  [acc EXCEPT !.da = Tab([e \in ifgdates |->
                           IF e \in LoopIfgs(l)
                           THEN Tab([p \in Pix |-> acc.da[e][p] /\ e \notin blamed[p]])
                           ELSE acc.da[e]])]

RECURSIVE Fold4b(_, _, _)
Fold4b(i, i1, acc) ==
  IF i >= i1 THEN acc ELSE Fold4b(i + 1, i1, Step4b(LoopAt(i), acc))

\* the cube after the first loop only
Accumulate4(tab) ==
  Fold4a(0, n_loop, [da |-> InitDa(tab), ns_loop_all |-> ZeroCube,
                     ns_loop_bad |-> ZeroCube,
                     ns_loop_err1 |-> Tab([p \in Pix |-> 0])], tab)

RECURSIVE Fold4ab(_, _, _, _)
Fold4ab(i, i1, acc, tab) ==
  IF i >= i1 THEN acc
  ELSE Fold4ab(i + 1, i1, Step4b(LoopAt(i), Step4a(LoopAt(i), acc, tab)), tab)
loop_closure_4th_incremental(tab) ==
  Fold4ab(0, n_loop, [da |-> InitDa(tab), ns_loop_all |-> ZeroCube,
                      ns_loop_bad |-> ZeroCube,
                      ns_loop_err1 |-> Tab([p \in Pix |-> 0])], tab)
\* loop_closure_4th([0, len(Aloop)], da) under policy tab (treat_as_bad)
loop_closure_4th(tab) == Fold4b(0, n_loop, Accumulate4(tab))

\* ----------------------------------------------------------- nullification
MaskIsMixed_false(mask) == \E p \in Pix : ~mask[p]
\* 698: the mask holds both True and False
MaskIsMixed(mask) == (\E p \in Pix : ~mask[p]) /\ (\E p \in Pix : mask[p])

\* 1401-1405: unw[mask == False] = nan
ApplyMask(src, mask) == Tab([p \in Pix |-> IF mask[p] THEN src[p] ELSE NaN])

NullifySource_cur(e, u, o) == u[e]
\* 1391-1393: the raster that is read for nullification
NullifySource(e, u, o) == IF e \in DOMAIN o THEN o[e] ELSE u[e]

NullifyBackup_again(e, u, o, save) ==
  IF save
  THEN [x \in DOMAIN o \cup {e} |-> IF x = e THEN u[e] ELSE o[x]]
  ELSE o
\* 1392-1396: the originals after the call
NullifyBackup(e, u, o, save) ==
  IF e \notin DOMAIN o /\ save
  THEN [x \in DOMAIN o \cup {e} |-> IF x = e THEN u[e] ELSE o[x]]
  ELSE o

\* nullify_unw(ifgd, mask) on the disk <<u, o>>
nullify_unw(e, mask, u, o, save) ==
  <<[u EXCEPT ![e] = ApplyMask(NullifySource(e, u, o), mask)],
    NullifyBackup(e, u, o, save)>>

\* 695-700: the ifgs nullified for a mask cube
ToNullify(cube) == {e \in ifgdates : MaskIsMixed(cube[e])}

\* ------------------------------------------------------------------- Init
EmptyFn == [x \in {} |-> 0]
NoRaster == [p \in Pix |-> 0]

\* a cum.h5 that does not exist
AbsentFile == [imdates |-> <<>>, cum |-> <<>>, bperp |-> <<>>, static |-> 0]
\* no time series file is at hand
NoH5 == f_old = AbsentFile /\ f_new = AbsentFile /\ f_out = AbsentFile

\* 1260-1262: the counters before the first loop, with the numbers of loops
\* seen so far that had a valid residual and that failed at the pixel
NoFan == [ns_loop_all |-> 0, ns_loop_bad |-> 0, ns_loop_err1 |-> 0, valid |-> 0, failed |-> 0]

\* the values of the run's variables before main() has set them
RunUnset ==
  /\ multi_prime = FALSE /\ rm_ifg = {} /\ nullify = FALSE
  /\ save_ori_unw = TRUE /\ treat_as_bad = FALSE
  /\ no_loop_ifg = {} /\ bad_ifg1 = {} /\ bad_ifg = {} /\ bad_ifg_cand = {}
  /\ good_ifg = {} /\ loop_ph_rms_ifg = EmptyFn
  /\ n_unw = NoRaster /\ ns_loop_ph = NoRaster /\ ns_bad_loop = NoRaster
  /\ loop_ph_rms_points = NoRaster
  /\ refarea = <<>> /\ noref_ifg = {}
  /\ loop_ph_rms_ifg2 = EmptyFn /\ bad_ifg_cand2 = {} /\ good_ifg2 = {}
  /\ bad_ifg2 = {} /\ bad_ifg_all = {} /\ bad_ifg_cand_res = {}
  /\ da = EmptyFn /\ ns_loop_err = NoRaster /\ ns_loop_all = EmptyFn
  /\ ns_loop_bad = EmptyFn
  /\ n_nullify = NoRaster /\ written = {}
  /\ outdirs = FALSE

\* The networks: the ifgs in the order in which they become available (by
\* secondary epoch, then primary epoch), any non-empty initial part of it
EdgeBefore(e, f) == e[2] < f[2] \/ (e[2] = f[2] /\ e[1] < f[1])
EdgeRank(e) == Cardinality({f \in AllEdges : EdgeBefore(f, e)})
Networks == {{e \in AllEdges : EdgeRank(e) < k} : k \in 1..Cardinality(AllEdges)}

\* the manual removal lists (--rm_ifg_list): none, or the newest ifgs
RmLists(ifgs) ==
  {{e \in ifgs : EdgeRank(e) >= Cardinality(ifgs) - k} : k \in 0..MaxRm}

Init ==
  /\ ifgdates \in Networks
  /\ \E F \in FaultSets(ifgdates, MaxFaults) :
       /\ OnePerPixel(F)
       /\ unw = [e \in ifgdates |-> InputUnw(e, F)]
  /\ ori = EmptyFn
  /\ unw_before = unw /\ ori_before = ori
  /\ pc = "idle"
  /\ err = "none"
  /\ RunUnset
  /\ NoH5 /\ fan = NoFan

\* ---------------------------------------------------------------- actions
Crash(what) == pc' = "crashed" /\ err' = what

\* 186-248: what the command line and the directories can be: in order, or
\* with an error that main() tests for (Usage, 223-230; no TS directory,
\* 246-248), or with a value that float() or int() rejects (202, 208)
Configs == {"ok", "no_d", "no_ifgdir", "no_mlipar", "no_rm_list", "no_tsadir",
            "bad_loop_thre", "bad_n_para"}
ConfigErr(config) ==
  CASE config \in {"no_d", "no_ifgdir", "no_mlipar", "no_rm_list"} -> "Usage"
    [] config = "no_tsadir" -> "NoTSdir"
    [] OTHER -> "ValueError"

\* the variables of a run before main() has set them; nullify, treat_as_bad
\* and save_ori_unw stay at their defaults (162-173) until the step that
\* first reads them takes their command-line value (Pass4, Nullify)
RunReset ==
  /\ nullify' = FALSE /\ treat_as_bad' = FALSE /\ save_ori_unw' = TRUE
  /\ no_loop_ifg' = {} /\ bad_ifg1' = {} /\ bad_ifg' = {} /\ bad_ifg_cand' = {}
  /\ good_ifg' = {} /\ loop_ph_rms_ifg' = EmptyFn
  /\ n_unw' = NoRaster /\ ns_loop_ph' = NoRaster /\ ns_bad_loop' = NoRaster
  /\ loop_ph_rms_points' = NoRaster
  /\ refarea' = <<>> /\ noref_ifg' = {}
  /\ loop_ph_rms_ifg2' = EmptyFn /\ bad_ifg_cand2' = {} /\ good_ifg2' = {}
  /\ bad_ifg2' = {} /\ bad_ifg_all' = {} /\ bad_ifg_cand_res' = {}
  /\ da' = EmptyFn /\ ns_loop_err' = NoRaster /\ ns_loop_all' = EmptyFn
  /\ ns_loop_bad' = EmptyFn
  /\ n_nullify' = NoRaster /\ written' = {}
  /\ unw_before' = unw /\ ori_before' = ori

\* 147-329: a run starts.  With a configuration in order, --multi_prime and
\* --rm_ifg_list are read and the output directories are made anew
\* (252-295); otherwise the run ends in the option reading (return 2, or the
\* exception of float() / int()) or at the test of the TS directory (return 1)
Start ==
  /\ pc \in {"idle", "done", "crashed", "rejected"}
  /\ RunReset
  /\ \E config \in Configs :
       IF config = "ok"
       THEN /\ pc' = "pass1" /\ err' = "none"
            /\ multi_prime' \in BOOLEAN
            /\ rm_ifg' \in RmLists(ifgdates)
            /\ outdirs' = TRUE
       ELSE /\ pc' = "rejected" /\ err' = ConfigErr(config)
            /\ multi_prime' = FALSE /\ rm_ifg' = {}
            /\ outdirs' = FALSE
  /\ UNCHANGED <<diskvars, h5vars, fan>>

\* 336-339: the ifgs whose column of Aloop sums to 0 in absolute value
NoLoopIfgs ==
  {e \in ifgdates : SumOver(Aloop, [l \in Aloop |-> Abs(AloopRow(l)[e])]) = 0}

\* 327-406: loop matrix, 1st loop closure check, bad ifgs of the 1st pass
Pass1 ==
  /\ pc = "pass1"
  /\ pc' = "pass2"
  /\ IF n_loop = 0
     THEN /\ no_loop_ifg' = ifgdates
          /\ bad_ifg' = {}
          /\ UNCHANGED <<bad_ifg1, bad_ifg_cand, good_ifg, loop_ph_rms_ifg>>
     ELSE LET rms == Tab([l \in Aloop |-> loop_closure_1st_wrapper(l)])
              cand == UNION {LoopIfgs(l) : l \in {m \in Aloop : IsBadLoop(rms[m])}}
              good == UNION {LoopIfgs(l) : l \in {m \in Aloop : ~IsBadLoop(rms[m])}}
          IN  /\ no_loop_ifg' = NoLoopIfgs
              /\ loop_ph_rms_ifg' = rms
              /\ bad_ifg_cand' = cand
              /\ good_ifg' = good
              /\ bad_ifg1' = identify_bad_ifg(cand, good)
              /\ bad_ifg' = identify_bad_ifg(cand, good) \cup rm_ifg
  /\ UNCHANGED <<diskvars, histvars, err, optvars, p2vars, refarea, noref_ifg, p3vars, p4vars,
                 n_nullify, written, outdirs, h5vars, fan>>

\* 408-455: n_unw, 2nd loop closure check split over the workers, reduction
Pass2 ==
  /\ pc = "pass2"
  /\ pc' = "ref"
  /\ n_unw' = Compute_n_unw
  /\ IF n_loop = 0
     THEN UNCHANGED <<ns_loop_ph, ns_bad_loop, loop_ph_rms_points>>
     ELSE \E n_para \in 1..MaxPara :
            LET args == get_patchrow(n_loop, n_para)
                res == Tab([a \in args |-> loop_closure_2nd_wrapper(a)])
            IN  /\ ns_loop_ph' = ReduceSum(res, args, "ns_loop_ph1")
                /\ ns_bad_loop' = ReduceSum(res, args, "ns_bad_loop1")
                /\ loop_ph_rms_points' = ReduceSum(res, args, "loop_ph_rms_points1")
  /\ UNCHANGED <<diskvars, histvars, err, optvars, p1vars, refarea, noref_ifg, p3vars, p4vars,
                 n_nullify, written, outdirs, h5vars, fan>>

\* 457-462: info/120ref.txt exists and gives the reference area
RefFromFile ==
  /\ pc = "ref"
  /\ \E a \in RefAreas : refarea' = a
  /\ pc' = "noref"
  /\ UNCHANGED <<diskvars, histvars, err, optvars, p1vars, p2vars, noref_ifg, p3vars, p4vars,
                 n_nullify, written, outdirs, h5vars, fan>>

\* 463-567: no 120ref.txt: the pixel of minimum masked RMS becomes the area.
\* loop_ph_rms_points_masked is bound only if n_loop > 0 (424-455), and
\* refyx[0][0] needs a pixel equal to the nanmin.
RefSelect ==
  /\ pc = "ref"
  /\ IF n_loop = 0
     THEN Crash("UnboundLocalError") /\ UNCHANGED refarea
     ELSE IF RefCandidates = {}
     THEN Crash("IndexError") /\ UNCHANGED refarea
     ELSE /\ refarea' = <<MinOf(RefCandidates) - 1, MinOf(RefCandidates)>>
          /\ pc' = "noref" /\ UNCHANGED err
  /\ UNCHANGED <<diskvars, histvars, optvars, p1vars, p2vars, noref_ifg, p3vars, p4vars,
                 n_nullify, written, outdirs, h5vars, fan>>

\* 569-598: ifgs without valid data in the reference area
NoRefCheck ==
  /\ pc = "noref"
  /\ pc' = "pass3"
  /\ noref_ifg' = {e \in ifgdates \ bad_ifg : NoRef(e)}
  /\ UNCHANGED <<diskvars, histvars, err, optvars, p1vars, p2vars, refarea, p3vars, p4vars,
                 n_nullify, written, outdirs, h5vars, fan>>

\* 600-665: 3rd loop closure check, bad ifgs of the 2nd classification,
\* the final bad list and the remaining candidates.
\* _n_para (602) is bound only in the n_loop > 0 branch (342).
Pass3 ==
  /\ pc = "pass3"
  /\ IF n_loop = 0
     THEN Crash("UnboundLocalError") /\ UNCHANGED p3vars
     ELSE LET rms == Tab([l \in Aloop |-> loop_closure_3rd_wrapper(l)])
              cand == UNION {LoopIfgs(l) : l \in {m \in Aloop : IsBadLoop2(rms[m])}}
              good == UNION {LoopIfgs(l) : l \in
                               {m \in Aloop : ~IsSkippedLoop2(rms[m])
                                              /\ ~IsBadLoop2(rms[m])}}
              bad2 == identify_bad_ifg(cand, good)
              all == bad_ifg \cup bad2 \cup noref_ifg
          IN  /\ loop_ph_rms_ifg2' = rms
              /\ bad_ifg_cand2' = cand
              /\ good_ifg2' = good
              /\ bad_ifg2' = bad2
              /\ bad_ifg_all' = all
              /\ bad_ifg_cand_res' = RemainingCand(cand, all)
              /\ pc' = "pass4" /\ UNCHANGED err
  /\ UNCHANGED <<diskvars, histvars, optvars, p1vars, p2vars, refarea, noref_ifg, p4vars,
                 n_nullify, written, outdirs, h5vars, fan>>

\* nullify_unw applied to the ifgs of S one after the other
RECURSIVE NullifyAll(_, _, _, _, _)
NullifyAll(S, cube, u, o, save) ==
  IF S = {} THEN <<u, o>>
  ELSE LET e == CHOOSE x \in S : \A y \in S : x = y \/ LoopLess(<<x[1], x[2], 0>>,
                                                                <<y[1], y[2], 0>>)
           d == nullify_unw(e, cube[e], u, o, save)
       IN  NullifyAll(S \ {e}, cube, d[1], d[2], save)

\* a 4th pass that rewrites the rasters itself, loop by loop
Pass4_writes ==
  /\ pc = "pass4"
  /\ pc' = "nullify"
  /\ treat_as_bad' \in BOOLEAN
  /\ LET res == loop_closure_4th(treat_as_bad')
     IN  /\ da' = res.da
         /\ ns_loop_err' = res.ns_loop_err1
         /\ ns_loop_all' = res.ns_loop_all
         /\ ns_loop_bad' = res.ns_loop_bad
         /\ unw' = NullifyAll(ToNullify(res.da), res.da, unw, ori, FALSE)[1]
  /\ UNCHANGED <<ifgdates, ori, histvars, err, multi_prime, rm_ifg, nullify, save_ori_unw,
                 p1vars, p2vars, refarea, noref_ifg, p3vars, n_nullify, written, outdirs, h5vars, fan>>
\* 667-685: the mask cube and the vote counts of loop_closure_4th.
\* A --nullify_threshold value is kept as the string it was given as (218),
\* so the comparison at 1307, reached for the first loop that is not
\* skipped, raises TypeError whatever the string holds.
Pass4 ==
  /\ pc = "pass4"
  /\ treat_as_bad' \in BOOLEAN
  /\ \E threshold_given \in BOOLEAN :
       IF threshold_given /\ \E l \in Aloop : ~Skip4(l)
       THEN /\ Crash("TypeError")
            /\ da' = InitDa(treat_as_bad')
            /\ UNCHANGED <<ns_loop_err, ns_loop_all, ns_loop_bad>>
       ELSE LET res == loop_closure_4th(treat_as_bad')
            IN  /\ pc' = "nullify" /\ UNCHANGED err
                /\ da' = res.da
                /\ ns_loop_err' = res.ns_loop_err1
                /\ ns_loop_all' = res.ns_loop_all
                /\ ns_loop_bad' = res.ns_loop_bad
  /\ UNCHANGED <<diskvars, histvars, multi_prime, rm_ifg, nullify, save_ori_unw, p1vars,
                 p2vars, refarea, noref_ifg, p3vars, n_nullify, written, outdirs, h5vars, fan>>

\* 686-700: nullification of the ifgs whose mask is mixed (the statistics
\* recomputed afterwards, 705-711, are not used again), and 715-1008: the
\* outputs; 794-795 takes max() over the baselines of the good ifgs, which
\* raises ValueError when no ifg is left
Nullify ==
  /\ pc = "nullify"
  /\ IF ifgdates \ bad_ifg_all = {}
     THEN Crash("ValueError")
     ELSE pc' = "done" /\ UNCHANGED err
  /\ nullify' \in BOOLEAN
  /\ save_ori_unw' \in BOOLEAN
  /\ ~nullify' => ~save_ori_unw'
  /\ IF nullify'
     THEN LET S == ToNullify(da)
              d == NullifyAll(S, da, unw, ori, save_ori_unw')
          IN  /\ unw' = d[1]
              /\ ori' = d[2]
              /\ written' = S
              /\ n_nullify' = [p \in Pix |-> Cardinality({e \in S : ~da[e][p]})]
     ELSE UNCHANGED <<unw, ori, written, n_nullify>>
  /\ UNCHANGED <<ifgdates, histvars, multi_prime, rm_ifg, treat_as_bad, p1vars,
                 p2vars, refarea, noref_ifg, p3vars, p4vars, outdirs, h5vars, fan>>

Next ==
  \/ Start
  \/ Pass1
  \/ Pass2
  \/ RefFromFile
  \/ RefSelect
  \/ NoRefCheck
  \/ Pass3
  \/ Pass4
  \/ Nullify

Spec == Init /\ [][Next]_vars

\* A second family of inputs: the complete network, NPair of whose ifgs carry
\* an unwrapping error of one cycle at the first pixel, the ifg of the first
\* two epochs being one of them with an error of +2pi
InitPair ==
  /\ ifgdates = AllEdges
  /\ \E F \in FaultSets(ifgdates, NPair) :
       /\ Cardinality(F) = NPair /\ OnePerPixel(F)
       /\ \A f \in F : f[2] = 1 /\ f[3] \in {"plus2pi", "minus2pi"}
       /\ <<<<1, 2>>, 1, "plus2pi">> \in F
       /\ unw = [e \in ifgdates |-> InputUnw(e, F)]
  /\ ori = EmptyFn
  /\ unw_before = unw /\ ori_before = ori
  /\ pc = "idle"
  /\ err = "none"
  /\ RunUnset
  /\ NoH5 /\ fan = NoFan

SpecPair == InitPair /\ [][Next]_vars

\* A third family of inputs: the three ifgs of the first three epochs, valid
\* at every pixel, whose loop phase unw12 + unw23 - unw13 is two whole cycles
\* (4 pi) at every pixel
CyclePhases == {3 * TwoPi, 3 * TwoPi + 1}
InitCycle ==
  /\ ifgdates = {<<1, 2>>, <<2, 3>>, <<1, 3>>}
  /\ \E x, y \in CyclePhases :
       unw = [e \in ifgdates |->
                [p \in Pix |->
                   CASE e = <<1, 2>> -> x + p
                     [] e = <<2, 3>> -> y
                     [] OTHER -> x + p + y - 2 * TwoPi]]
  /\ ori = EmptyFn
  /\ unw_before = unw /\ ori_before = ori
  /\ pc = "idle"
  /\ err = "none"
  /\ RunUnset
  /\ NoH5 /\ fan = NoFan

SpecCycle == InitCycle /\ [][Next]_vars

\* A fourth family of inputs: one epoch more, every ifg but the one of the
\* last two epochs; the ifg from the first to the last epoch has no data at
\* the first pixel, and one ifg of the earlier epochs carries an unwrapping
\* error of one cycle at the second pixel
WideEdges ==
  {e \in (1..(NEpoch + 1)) \X (1..(NEpoch + 1)) : e[1] < e[2]} \ {<<NEpoch, NEpoch + 1>>}
InitWide ==
  /\ ifgdates = WideEdges
  /\ \E e2 \in AllEdges : \E k \in {"plus2pi", "minus2pi"} :
       unw = [e \in ifgdates |->
                InputUnw(e, {<<<<1, NEpoch + 1>>, 1, "nodata">>, <<e2, 2, k>>})]
  /\ ori = EmptyFn
  /\ unw_before = unw /\ ori_before = ori
  /\ pc = "idle"
  /\ err = "none"
  /\ RunUnset
  /\ NoH5 /\ fan = NoFan

SpecWide == InitWide /\ [][Next]_vars

\* A fifth family of inputs: any network on the epochs, rasters without
\* faults
InitNet ==
  /\ ifgdates \in (SUBSET AllEdges) \ {{}}
  /\ unw = [e \in ifgdates |-> InputUnw(e, {})]
  /\ ori = EmptyFn
  /\ unw_before = unw /\ ori_before = ori
  /\ pc = "idle"
  /\ err = "none"
  /\ RunUnset
  /\ NoH5 /\ fan = NoFan

SpecNet == InitNet /\ [][Next]_vars

\* A sixth family of inputs: the complete network, one ifg of which carries
\* at the second pixel an error of 3/4 pi or of 5/4 pi, which the closure
\* noise of a quarter of pi brings to pi exactly in one of its loops
InitHalf ==
  /\ ifgdates = AllEdges
  /\ \E e1 \in AllEdges : \E k \in {"plus3q", "plus5q"} :
       unw = [e \in ifgdates |-> InputUnw(e, {<<e1, 2, k>>})]
  /\ ori = EmptyFn
  /\ unw_before = unw /\ ori_before = ori
  /\ pc = "idle"
  /\ err = "none"
  /\ RunUnset
  /\ NoH5 /\ fan = NoFan

SpecHalf == InitHalf /\ [][Next]_vars

\* ------------------------------------------------- LiCSBAS17: cum.h5 merge
\* dates are 1..MaxDate; a file holds one pixel of cum and one bperp per date
MaxDate == 3
CumValues == {1, 2}
\* Python's None for --union_idx
None == 0 - 99

Range(s) == {s[i] : i \in DOMAIN s}
\* np.sort of a sequence
np_sort(s) ==
  CHOOSE t \in [1..Len(s) -> Range(s)] :
    /\ \A i, j \in 1..Len(s) : i < j => t[i] <= t[j]
    /\ \A v \in Range(s) :
         Cardinality({i \in 1..Len(s) : t[i] = v}) = Cardinality({i \in 1..Len(s) : s[i] = v})
\* np.where(np.isin(s, S))[0]: the 0-based indices of s, in order, whose
\* element is in S
np_where(s, S) ==
  LET I == {i \in 1..Len(s) : s[i] \in S}
  IN  [k \in 1..Cardinality(I) |->
         (CHOOSE i \in I : Cardinality({j \in I : j < i}) = k - 1) - 1]
\* np.searchsorted(a, v) (side left) as a 0-based index
np_searchsorted(a, v) == Cardinality({i \in 1..Len(a) : a[i] < v})
\* ds[i] for a Python index i (0-based, negative from the end)
At(ds, i) == IF i < 0 THEN ds[Len(ds) + i + 1] ELSE ds[i + 1]
\* ds[idx] for a sequence of 0-based indices
Take(ds, idx) == [k \in 1..Len(idx) |-> ds[idx[k] + 1]]
np_diff(v) == [i \in 1..(Len(v) - 1) |-> v[i + 1] - v[i]]
\* n^2 times the variance of x (np.std squared, ddof = 0), n = Len(x)
VarNum(x) ==
  Len(x) * SumOver(DOMAIN x, [i \in DOMAIN x |-> x[i] * x[i]])
    - SumOver(DOMAIN x, x) * SumOver(DOMAIN x, x)

\* 16-22, 59-84: compute_rms(vals_old[:k], vals_new[:k]) < rms_threshold,
\* with rms_threshold = 2 * max(np.std(incr_old), np.std(incr_new)) (lines
\* 52-55), compared by their squares; the threshold is nan for a single
\* overlapping date, and then no comparison holds
RmsBelowThreshold(vals_old, vals_new, k) ==
  LET n == Len(vals_old) - 1
      a == VarNum(np_diff(vals_old))
      b == VarNum(np_diff(vals_new))
      offset == vals_old[1] - vals_new[1]
      S == SumOver(1..k, [i \in 1..k |->
             (vals_old[i] - (vals_new[i] + offset)) * (vals_old[i] - (vals_new[i] + offset))])
  IN  /\ n >= 1
      /\ k >= 1
      /\ S * n * n < 4 * (IF a >= b THEN a ELSE b) * k

\* 25-91: choose_union_index, a Python index into the old series
choose_union_index(dates_old, ds_old, dates_new, ds_new, method, user_idx) ==
  IF method = "manual" /\ user_idx # None THEN user_idx
  ELSE IF method = "varianza"
  THEN LET overlap == Range(dates_old) \cap Range(dates_new)
           idx_old_overlap == np_where(dates_old, overlap)
           idx_new_overlap == np_where(dates_new, overlap)
           vals_old_overlap == Take(ds_old, idx_old_overlap)
           vals_new_overlap == Take(ds_new, idx_new_overlap)
           m == Len(idx_old_overlap)
       IN  IF overlap = {} THEN 0 - 1
           ELSE IF RmsBelowThreshold(vals_old_overlap, vals_new_overlap, m)
           THEN idx_old_overlap[1]
           ELSE IF m > 1 /\ RmsBelowThreshold(vals_old_overlap, vals_new_overlap, m - 1)
           THEN idx_old_overlap[1]
           ELSE IF m > 2 /\ RmsBelowThreshold(vals_old_overlap, vals_new_overlap, m - 2)
           THEN idx_old_overlap[1]
           ELSE 0 - 1
  ELSE 0 - 1

\* np.cumsum
RECURSIVE np_cumsum(_)
np_cumsum(v) ==
  IF Len(v) = 0 THEN <<>>
  ELSE LET head == np_cumsum(SubSeq(v, 1, Len(v) - 1))
       IN  Append(head, (IF Len(head) = 0 THEN 0 ELSE head[Len(head)]) + v[Len(v)])

\* 98: the dates of the new file that the old file does not have
NewValid(dates_old, dates_new) ==
  SelectSeq(dates_new, LAMBDA d : d \notin Range(dates_old))
\* 99
CombinedDates(dates_old, dates_new) ==
  np_sort(dates_old \o NewValid(dates_old, dates_new))

\* 117-149: the body of the loop over 'bperp' and 'cum' for one dataset;
\* a dataset created without data reads 0 where nothing was written
MergeDset(dates_old, ds_old, dates_new, ds_new, method, user_idx) ==
  LET dates_new_valid == NewValid(dates_old, dates_new)
      combined_dates == CombinedDates(dates_old, dates_new)
      n_combined == Len(combined_dates)
      n_old == Len(dates_old)
      idx_new_valid == np_where(dates_new, Range(dates_new_valid))
      idx_combined_new == [k \in 1..Len(dates_new_valid) |->
                             np_searchsorted(combined_dates, dates_new_valid[k])]
      vals_new_valid == Take(ds_new, idx_new_valid)
      union_idx == choose_union_index(dates_old, ds_old, dates_new, ds_new, method, user_idx)
      last_old_value == At(ds_old, union_idx)
      increments == [k \in 1..Len(vals_new_valid) |->
                       IF k = 1 THEN vals_new_valid[1]
                       ELSE vals_new_valid[k] - vals_new_valid[k - 1]]
      cs == np_cumsum(increments)
      accumulated == [k \in 1..Len(cs) |-> cs[k] + last_old_value]
  IN  [i \in 1..n_combined |->
         IF \E k \in 1..Len(idx_combined_new) : idx_combined_new[k] = i - 1
         THEN accumulated[CHOOSE k \in 1..Len(idx_combined_new) : idx_combined_new[k] = i - 1]
         ELSE IF i <= n_old THEN ds_old[i] ELSE 0]

\* 94-151: the file written as file_out (static datasets copied, 107-113)
merge_cum_files_continuous_accumulate(file_old, file_new, method, user_idx) ==
  [imdates |-> CombinedDates(file_old.imdates, file_new.imdates),
   cum     |-> MergeDset(file_old.imdates, file_old.cum, file_new.imdates, file_new.cum,
                         method, user_idx),
   bperp   |-> MergeDset(file_old.imdates, file_old.bperp, file_new.imdates, file_new.bperp,
                         method, user_idx),
   static  |-> file_old.static]

vars12 == <<diskvars, pc, err, optvars, p1vars, p2vars, refarea, noref_ifg, p3vars,
            p4vars, n_nullify, written, histvars, outdirs>>

\* 154-194: main() of LiCSBAS17.py: exit when a file is missing; the union
\* method from --union_idx (an index that exists in the old series) and
\* --varianza
LiCSBAS17_main ==
  /\ IF f_old = AbsentFile \/ f_new = AbsentFile
     THEN UNCHANGED f_out
     ELSE \E user_idx \in {None} \cup ((0 - Len(f_old.imdates))..(0 - 1)) :
          \E varianza \in BOOLEAN :
            LET method == IF user_idx # None THEN "manual"
                          ELSE IF varianza THEN "varianza" ELSE "last"
            IN  f_out' = merge_cum_files_continuous_accumulate(f_old, f_new, method, user_idx)
  /\ UNCHANGED <<vars12, f_old, f_new, fan>>

\* the cum.h5 files: increasing dates, a value of cum and of bperp per date
DateLists == {np_sort(s) : s \in {t \in UNION {[1..n -> 1..MaxDate] : n \in 1..MaxDate} :
                                   \A i, j \in DOMAIN t : i < j => t[i] < t[j]}}
CumFiles(tag) ==
  UNION {{[imdates |-> d, cum |-> c, bperp |-> b, static |-> tag] :
            c \in [1..Len(d) -> CumValues], b \in [1..Len(d) -> CumValues]} : d \in DateLists}

InitMerge ==
  /\ ifgdates = {}
  /\ unw = EmptyFn /\ ori = EmptyFn
  /\ unw_before = unw /\ ori_before = ori
  /\ pc = "idle"
  /\ err = "none"
  /\ RunUnset
  /\ f_old \in CumFiles(1) \cup {AbsentFile}
  /\ f_new \in CumFiles(2) \cup {AbsentFile}
  /\ f_out = AbsentFile
  /\ fan = NoFan

Next17 == LiCSBAS17_main

SpecMerge == InitMerge /\ [][Next17]_vars

\* --------------------------------- the vote loop on a network of many loops
\* A fan network: ifgs (1,2), (1,c) and (2,c) for c = 3, 4, ...; its loops
\* are the triangles 1-2-c, and all of them hold ifg (1,2) as ifgd12.
\* At most MaxFan loops with a residual at the pixel are followed.
MaxFan == 257

\* 1275-1326 for one loop of the fan (none of its ifgs is in bad_ifg_all), at
\* one pixel and for ifg (1,2): has_ph is ~np.isnan(loop_ph) at the pixel,
\* below is np.abs(loop_ph) < nullify_threshold for a residual that exists
loop_closure_4th_iter ==
  /\ fan.valid < MaxFan
  /\ \E has_ph \in BOOLEAN : \E below \in BOOLEAN :
       LET is_ok == ~has_ph \/ below
       IN  fan' = [ns_loop_all  |-> Wrap_int8(fan.ns_loop_all + (IF has_ph THEN 1 ELSE 0)),
                   ns_loop_bad  |-> Wrap_int8(fan.ns_loop_bad + (IF is_ok THEN 0 ELSE 1)),
                   ns_loop_err1 |-> Wrap_uint8(fan.ns_loop_err1 + (IF is_ok THEN 0 ELSE 1)),
                   valid        |-> fan.valid + (IF has_ph THEN 1 ELSE 0),
                   failed       |-> fan.failed + (IF is_ok THEN 0 ELSE 1)]
  /\ UNCHANGED <<vars12, h5vars>>

InitFan ==
  /\ ifgdates = {}
  /\ unw = EmptyFn /\ ori = EmptyFn
  /\ unw_before = unw /\ ori_before = ori
  /\ pc = "idle"
  /\ err = "none"
  /\ RunUnset
  /\ NoH5 /\ fan = NoFan

NextFan == loop_closure_4th_iter

SpecFan == InitFan /\ [][NextFan]_vars

\* ------------------------------------------------------------ properties
\* the 1st classification of this run is in the state
Pass1Done == n_loop > 0 /\ pc \notin {"idle", "pass1", "rejected"}
\* the 2nd classification of this run is in the state
Pass3Done == pc \in {"pass4", "nullify", "done"} \/ (pc = "crashed" /\ err = "ValueError")

\* the loops rated bad / good by the value recorded for them
BadLoops1 == {l \in Aloop : RmsGE(loop_ph_rms_ifg[l], loop_thre)}
GoodLoops1 == Aloop \ BadLoops1
BadLoops3 == {l \in Aloop : RmsGE(loop_ph_rms_ifg2[l], loop_thre)}
GoodLoops3 == {l \in Aloop : loop_ph_rms_ifg2[l].kind = "val"} \ BadLoops3

InSome(e, L) == LoopsOf(e) \cap L # {}

\* C1: in the 1st and in the 3rd pass a loop counts as bad exactly when its
\* recorded RMS is >= loop_thre; an ifg is in the pass's bad list exactly
\* when it is in a bad loop and in no good loop; an ifg with both a bad and a
\* good loop is not in the bad list and is among the pass's candidates.
C1_Classifier ==
  /\ Pass1Done =>
       \A e \in ifgdates :
         /\ e \in bad_ifg1 <=> (InSome(e, BadLoops1) /\ ~InSome(e, GoodLoops1))
         /\ (InSome(e, BadLoops1) /\ InSome(e, GoodLoops1))
              => (e \notin bad_ifg1 /\ e \in bad_ifg_cand)
  /\ Pass3Done =>
       \A e \in ifgdates :
         /\ e \in bad_ifg2 <=> (InSome(e, BadLoops3) /\ ~InSome(e, GoodLoops3))
         /\ (InSome(e, BadLoops3) /\ InSome(e, GoodLoops3))
              => (e \notin bad_ifg2 /\ e \in bad_ifg_cand_res)

\* a run whose 3rd pass left an ifg with a bad and a good loop and put
\* another ifg in its bad list
C1_Witness ==
  /\ Pass3Done
  /\ \E e \in ifgdates : InSome(e, BadLoops3) /\ InSome(e, GoodLoops3)
  /\ bad_ifg2 # {}

\* 697-700: the number of pixels set to nan over all ifgs for a mask cube
NullifiedPixels(cube) ==
  SumOver(ToNullify(cube),
          [e \in ifgdates |-> Cardinality({p \in Pix : ~cube[e][p]})])

\* C2: on the same rasters, loops, bad list and reference area, nullifying
\* with the gentle mask cube sets at most as many pixels to nan as nullifying
\* with the aggressive (--treat_as_bad) cube.
C2_GentleAtMostAggressive ==
  pc = "nullify" =>
    NullifiedPixels(loop_closure_4th(FALSE).da)
      <= NullifiedPixels(loop_closure_4th(TRUE).da)

\* the loops processed by the 4th pass that contain ifg e and have a loop
\* phase at pixel p
Touching(e, p) == {l \in LoopsOf(e) : ~Skip4(l) /\ ~IsNaN(LoopPh4(l)[p])}
\* the residual of loop l at pixel p is below the nullification threshold
Clean(l, p) == Abs(LoopPh4(l)[p]) < nullify_threshold * RefScale

\* C3: under the gentle policy, a pixel of a retained ifg for which one
\* processed loop has a residual below the nullification threshold is
\* supported in the mask returned by loop_closure_4th.
C3_GentleKeepsCleanPixel ==
  (pc = "nullify" /\ ~treat_as_bad) =>
    \A e \in ifgdates \ bad_ifg_all : \A p \in Pix :
      (\E l \in Touching(e, p) : Clean(l, p)) => da[e][p]

\* C4: under the aggressive policy, a pixel of an ifg is supported in the
\* mask returned by loop_closure_4th only if every processed loop through
\* the ifg with a phase at the pixel has a residual below the threshold.
C4_AggressiveNeedsAllClean ==
  (pc = "nullify" /\ treat_as_bad) =>
    \A e \in ifgdates : \A p \in Pix :
      da[e][p] => \A l \in Touching(e, p) : Clean(l, p)

\* an aggressive mask in which a pixel with two clean loops is supported and
\* a pixel with a clean and an unclean loop is not
C4_Witness ==
  /\ pc = "nullify" /\ treat_as_bad
  /\ \E e \in ifgdates : \E p \in Pix :
       /\ da[e][p] /\ Cardinality(Touching(e, p)) >= 2
  /\ \E e \in ifgdates : \E p \in Pix :
       /\ ~da[e][p]
       /\ \E l, m \in Touching(e, p) : Clean(l, p) /\ ~Clean(m, p)

\* C5: on a network without loops the run ends without an error, with every
\* ifg listed as no-loop and no raster rewritten.
C5_ZeroLoopCompletes ==
  n_loop = 0 =>
    /\ pc # "crashed"
    /\ pc = "done" => (no_loop_ifg = ifgdates /\ written = {})

\* the rasters are those the classifications of this run have read
Unwritten1 == n_loop > 0 /\ pc \in {"pass2", "ref", "noref", "pass3", "pass4", "nullify"}
Unwritten3 == pc \in {"pass4", "nullify"}

\* loop l has no valid pixel
Inapplicable(l) == Valid(LoopPh(l)) = {}
\* ifg e is in loops, all of them without a valid pixel
OnlyInapplicable(e) == LoopsOf(e) # {} /\ \A l \in LoopsOf(e) : Inapplicable(l)

\* C6 as stated: in the 1st and in the 3rd pass an ifg all of whose loops
\* have no valid pixel is neither in the pass's bad list nor in its good list.
C6_InapplicableExcluded ==
  /\ Unwritten1 =>
       \A e \in ifgdates : OnlyInapplicable(e) => (e \notin bad_ifg1 /\ e \notin good_ifg)
  /\ Unwritten3 =>
       \A e \in ifgdates : OnlyInapplicable(e) => (e \notin bad_ifg2 /\ e \notin good_ifg2)

\* C6 amended: the 1st pass records inf for a loop without valid pixel, which
\* is >= loop_thre, so the loop counts as bad and an ifg with only such loops
\* is in the 1st bad list; the 3rd pass records nan for it, as for a loop
\* without valid pixel relative to the reference, and counts it neither as
\* good nor as bad.
C6_InapplicableBadThenSkipped ==
  /\ Unwritten1 =>
       /\ \A l \in Aloop : Inapplicable(l) =>
            /\ loop_ph_rms_ifg[l].kind = "inf"
            /\ l \in BadLoops1
            /\ LoopIfgs(l) \subseteq bad_ifg_cand
       /\ \A e \in ifgdates : OnlyInapplicable(e) => (e \in bad_ifg1 /\ e \notin good_ifg)
  /\ Unwritten3 =>
       /\ \A l \in Aloop : (Inapplicable(l) \/ Valid(LoopPhRef(l)) = {}) =>
            /\ loop_ph_rms_ifg2[l].kind = "nan"
            /\ l \notin BadLoops3 /\ l \notin GoodLoops3
       /\ bad_ifg_cand2 = UNION {LoopIfgs(l) : l \in BadLoops3}
       /\ good_ifg2 = UNION {LoopIfgs(l) : l \in GoodLoops3}
       /\ \A e \in ifgdates : OnlyInapplicable(e) => (e \notin bad_ifg2 /\ e \notin good_ifg2)

\* a loop without valid pixel that the 1st pass rated bad, and a loop that
\* the 3rd pass rated although it has no valid pixel relative to the reference
C6_Witness ==
  /\ Unwritten3
  /\ \E l \in Aloop : Inapplicable(l)
  /\ \E l \in Aloop : ~Skip3(l) /\ Valid(LoopPhRef(l)) = {}

\* loop l contains an ifg of the bad list of the 1st pass (bad_ifg)
BadAfter1(l) == LoopIfgs(l) \cap bad_ifg # {}
\* loop l has a de-biased phase at pixel p
HasPhase2(l, p) == ~IsNaN(Unbias(LoopPh(l), multi_prime)[p])
Sq2(l, p) == Unbias(LoopPh(l), multi_prime)[p] * Unbias(LoopPh(l), multi_prime)[p]
Unwritten2 == n_loop > 0 /\ pc \in {"ref", "noref", "pass3", "pass4", "nullify"}

\* C7: a loop that contains an ifg listed as bad after the 1st pass adds
\* nothing to the per-pixel sums of the 2nd pass, is rated neither good nor
\* bad in the 3rd pass, and adds nothing to the counts of the 4th pass.
C7_BadLoopsContributeNothing ==
  /\ Unwritten2 =>
       \A p \in Pix :
         /\ ns_loop_ph[p] =
              Cardinality({l \in Aloop : ~BadAfter1(l) /\ HasPhase2(l, p)})
         /\ ns_bad_loop[p] =
              Cardinality({l \in Aloop : /\ ~BadAfter1(l) /\ HasPhase2(l, p)
                                         /\ Sq2(l, p) > 4 * Pi * Pi})
         /\ loop_ph_rms_points[p] =
              SumOver({l \in Aloop : ~BadAfter1(l) /\ HasPhase2(l, p)},
                      [l \in Aloop |-> Sq2(l, p)])
  /\ Unwritten3 =>
       \A l \in Aloop : BadAfter1(l) =>
         /\ loop_ph_rms_ifg2[l].kind = "nan"
         /\ \A e \in LoopIfgs(l) :
              /\ e \in bad_ifg_cand2 => InSome(e, BadLoops3 \ {l})
              /\ e \in good_ifg2 => InSome(e, GoodLoops3 \ {l})
  /\ pc = "nullify" =>
       /\ \A e \in ifgdates : \A p \in Pix :
            /\ ns_loop_all[e][p] =
                 Cardinality({l \in Touching(e, p) : ~BadAfter1(l)})
            /\ ns_loop_bad[e][p] =
                 Cardinality({l \in LoopsOf(e) : /\ ~BadAfter1(l) /\ ~Skip4(l)
                                                 /\ ~IsOk(LoopPh4(l), p)})
       /\ \A p \in Pix :
            ns_loop_err[p] =
              Cardinality({l \in Aloop : /\ ~BadAfter1(l) /\ ~Skip4(l)
                                         /\ ~IsOk(LoopPh4(l), p)})

\* a run in which a loop with a phase at every pixel holds an ifg listed as
\* bad after the 1st pass while another loop is processed by all passes
C7_Witness ==
  /\ pc = "nullify"
  /\ \E l \in Aloop : BadAfter1(l) /\ \A p \in Pix : HasPhase2(l, p)
  /\ \E l \in Aloop : ~Skip4(l) /\ \A p \in Pix : HasPhase2(l, p)

\* C8 as stated: at the end of a run the final bad list, the remaining
\* candidates, the no-loop list and the no-reference list are pairwise
\* disjoint.
C8_ListsDisjoint ==
  pc = "done" =>
    /\ bad_ifg_all \cap bad_ifg_cand_res = {}
    /\ bad_ifg_all \cap no_loop_ifg = {}
    /\ bad_ifg_all \cap noref_ifg = {}
    /\ bad_ifg_cand_res \cap no_loop_ifg = {}
    /\ bad_ifg_cand_res \cap noref_ifg = {}
    /\ no_loop_ifg \cap noref_ifg = {}

\* C8 amended: the remaining candidates are disjoint from the final bad
\* list, the no-loop list and the no-reference list; the no-reference list
\* is part of the final bad list; a no-loop ifg is in the final bad list
\* exactly when it was removed manually or has no reference.
C8_CandidatesApart ==
  pc = "done" =>
    /\ bad_ifg_all \cap bad_ifg_cand_res = {}
    /\ bad_ifg_cand_res \cap no_loop_ifg = {}
    /\ bad_ifg_cand_res \cap noref_ifg = {}
    /\ noref_ifg \subseteq bad_ifg_all
    /\ no_loop_ifg \cap bad_ifg_all = no_loop_ifg \cap (rm_ifg \cup noref_ifg)

\* the end of a run with a no-loop ifg in the final bad list and an ifg
\* without reference
C8_Witness ==
  /\ pc = "done"
  /\ no_loop_ifg \cap bad_ifg_all # {}
  /\ noref_ifg # {}

\* the nullification step of this run is over
RunEnded == pc = "done" \/ (pc = "crashed" /\ err = "ValueError")

\* C9 as stated: every ifg whose raster a run has rewritten has a preserved
\* original, which is the one the run found or else a copy of the raster as
\* the run found it; a preserved original that the run found is unchanged.
C9_BackupBeforeWrite ==
  RunEnded =>
    /\ \A e \in written :
         /\ e \in DOMAIN ori
         /\ ori[e] = IF e \in DOMAIN ori_before THEN ori_before[e] ELSE unw_before[e]
    /\ \A e \in DOMAIN ori_before : e \in DOMAIN ori /\ ori[e] = ori_before[e]

\* C9 amended: a preserved original that the run found is unchanged; for a
\* rewritten ifg without one, a copy of the raster as the run found it is
\* preserved when save_ori_unw holds (no --nullify_skip_backup) and nothing
\* is preserved otherwise; no other original appears.
C9_BackupUnlessSkipped ==
  RunEnded =>
    /\ \A e \in DOMAIN ori_before : e \in DOMAIN ori /\ ori[e] = ori_before[e]
    /\ \A e \in written \ DOMAIN ori_before :
         IF save_ori_unw THEN e \in DOMAIN ori /\ ori[e] = unw_before[e]
         ELSE e \notin DOMAIN ori
    /\ DOMAIN ori \subseteq DOMAIN ori_before \cup written

\* a run that has rewritten, with a changed content, an ifg whose original
\* was preserved before, and an ifg whose original it has preserved itself
C9_Witness ==
  /\ RunEnded
  /\ \E e \in written \cap DOMAIN ori_before : unw[e] # unw_before[e]
  /\ \E e \in written \ DOMAIN ori_before : e \in DOMAIN ori

\* C10: when a run rewrites an ifg that has a preserved original, the new
\* current raster is that original with nan at exactly the pixels that are
\* unsupported in the mask of this run, whatever the current raster held.
C10_RewriteFromOriginal ==
  RunEnded =>
    \A e \in written \cap DOMAIN ori_before :
      unw[e] = [p \in Pix |-> IF da[e][p] THEN ori_before[e][p] ELSE NaN]

\* a rewritten ifg with a pixel that an earlier run had set to nan, that is
\* supported in the mask of this run and holds the original value again
C10_Witness ==
  /\ RunEnded
  /\ \E e \in written \cap DOMAIN ori_before : \E p \in Pix :
       /\ IsNaN(unw_before[e][p]) /\ ~IsNaN(ori_before[e][p])
       /\ da[e][p] /\ unw[e][p] = ori_before[e][p]

\* a run is inside its loop evaluations (or was ended by an error in them)
InPasses ==
  \/ pc \in {"pass1", "pass2", "ref", "noref", "pass3", "pass4", "nullify"}
  \/ (pc = "crashed" /\ err # "ValueError")

\* C11: while a run evaluates loops (passes 1 to 4) no raster and no preserved
\* original changes; after the run every raster is either as the run found it
\* or the result of one nullify_unw call with the ifg's final mask, and a
\* raster is rewritten only in a run that has its final bad list and a mask
\* for every ifg.
C11_WriteOnlyAtNullify ==
  /\ InPasses => (unw = unw_before /\ ori = ori_before /\ written = {})
  /\ RunEnded =>
       /\ \A e \in ifgdates \ written : unw[e] = unw_before[e]
       /\ \A e \in written :
            unw[e] = nullify_unw(e, da[e], unw_before, ori_before, save_ori_unw)[1][e]
       /\ written # {} => (Pass3Done /\ DOMAIN da = ifgdates /\ written \subseteq ifgdates)

\* the end of a run that has rewritten one raster with a changed content and
\* left another one alone
C11_Witness ==
  /\ RunEnded
  /\ \E e \in written : unw[e] # unw_before[e]
  /\ ifgdates \ written # {}

\* C12: after a run with nullification enabled, every pixel that is
\* unsupported in the final mask of an ifg holds no data (nan, or the 0 of the
\* input) in the raster of that ifg, also when the mask is unsupported at
\* every pixel.
C12_UnsupportedIsNoData ==
  (RunEnded /\ nullify) =>
    \A e \in ifgdates : \A p \in Pix :
      ~da[e][p] => (IsNaN(unw[e][p]) \/ unw[e][p] = 0)

\* the reference selection of this run has its inputs and a result
Selecting == pc = "ref" /\ n_loop > 0 /\ RefCandidates # {}
\* pixels with the maximum number of valid ifgs
MaxCoverage == {p \in Pix : \A q \in Pix : n_unw[q] <= n_unw[p]}
\* those of them with the least number of bad loops
LeastBad == {p \in MaxCoverage : \A q \in MaxCoverage : ns_bad_loop[p] <= ns_bad_loop[q]}
\* sqrt(sum of squares / n) at p is <= that at q (both with a valid loop);
\* loop_ph_rms_points holds the sums of squares (times 4)
TrueRmsLE(p, q) ==
  loop_ph_rms_points[p] * ns_loop_ph[q] <= loop_ph_rms_points[q] * ns_loop_ph[p]

\* C13: without 120ref.txt the selected reference pixel has the maximum
\* number of valid ifgs, the least number of bad loops among the pixels with
\* that maximum, the least closure RMS (root of the mean of the squared
\* residuals of the loops valid at the pixel) among those, and is the first
\* such pixel in scan order.
C13_RefIsBestPixel ==
  Selecting =>
    LET r == MinOf(RefCandidates)
        Pool == {q \in LeastBad : ns_loop_ph[q] > 0}
    IN  /\ r \in MaxCoverage
        /\ r \in LeastBad
        /\ \A q \in Pool : TrueRmsLE(r, q)
        /\ \A q \in Pool : (TrueRmsLE(q, r) /\ r \in Pool) => r <= q

\* the reference selection of this run found no pixel: the run is past the
\* selection without a reference area although it had loops
Exhausted ==
  /\ n_loop > 0 /\ refarea = <<>> /\ RefCandidates = {}
  /\ pc \notin {"idle", "rejected", "pass1", "pass2", "ref"}

\* C14: when the reference selection finds no pixel, the run stops with an
\* error of its own that reports the exhausted reference area, not with an
\* exception raised by an unrelated statement.
C14_ExhaustionReported ==
  Exhausted => (pc = "crashed" /\ err = "ReferenceAreaError")

\* the loop of the first three epochs
Loop123 == <<1, 2, 3>>

\* C15: on three ifgs valid everywhere whose loop phase is 4 pi at every
\* pixel, with no ifg removed by hand, the de-biased residual is 0 at every
\* pixel, the loop RMS recorded by the 1st and the 3rd pass is 0, no ifg is
\* in a bad list, the run does not fail in the reference selection (which is
\* reached only without 120ref.txt) nor later (but for a --nullify_threshold
\* on the command line), and no raster is rewritten.
C15_FourPiLoopIsClean ==
  rm_ifg = {} =>
    /\ pc = "crashed" => err = "TypeError"
    /\ pc = "pass1" => \A p \in Pix : Unbias(LoopPh(Loop123), multi_prime)[p] = 0
    /\ Pass1Done => (loop_ph_rms_ifg[Loop123].kind = "val"
                     /\ loop_ph_rms_ifg[Loop123].ss = 0 /\ bad_ifg = {})
    /\ Pass3Done => (loop_ph_rms_ifg2[Loop123].kind = "val"
                     /\ loop_ph_rms_ifg2[Loop123].ss = 0 /\ bad_ifg_all = {})
    /\ RunEnded => (written = {} /\ \A p \in Pix : n_nullify[p] = 0)

\* every way of cutting the rows 0 .. n-1 into consecutive slices [i0, i1)
Splits(n) ==
  {{a \in (0..n) \X (0..n) :
      /\ a[1] \in C \cup {0} /\ a[2] \in C \cup {n} /\ a[1] < a[2]
      /\ ~\E c \in C : a[1] < c /\ c < a[2]} : C \in SUBSET (1..(n - 1))}

\* the three rasters of the 2nd pass reduced over the slices of a split
Reduced(split) ==
  LET res == Tab([a \in split |-> loop_closure_2nd_wrapper(a)])
  IN  <<ReduceSum(res, split, "ns_loop_ph1"),
        ReduceSum(res, split, "ns_bad_loop1"),
        ReduceSum(res, split, "loop_ph_rms_points1")>>

NoRefDone == pc \in {"pass3", "pass4", "nullify"}
\* loop l contains an ifg without reference
HasNoRef(l) == LoopIfgs(l) \cap noref_ifg # {}

\* loop_closure_4th under policy tab with the loops of X left out of both of
\* its loops over Aloop
RECURSIVE Fold4aWithout(_, _, _, _)
Fold4aWithout(i, acc, tab, X) ==
  IF i >= n_loop THEN acc
  ELSE Fold4aWithout(i + 1,
                     IF LoopAt(i) \in X THEN acc ELSE Step4a(LoopAt(i), acc, tab),
                     tab, X)
RECURSIVE Fold4bWithout(_, _, _)
Fold4bWithout(i, acc, X) ==
  IF i >= n_loop THEN acc
  ELSE Fold4bWithout(i + 1, IF LoopAt(i) \in X THEN acc ELSE Step4b(LoopAt(i), acc), X)
Pass4Without(tab, X) ==
  Fold4bWithout(0,
    Fold4aWithout(0, [da |-> InitDa(tab), ns_loop_all |-> ZeroCube,
                      ns_loop_bad |-> ZeroCube,
                      ns_loop_err1 |-> Tab([p \in Pix |-> 0])], tab, X), X)

\* C17: once the reference area is fixed, every ifg outside the bad list of
\* the 1st pass and outside the no-reference list has a valid pixel in the
\* area and every other ifg outside that bad list is in the no-reference
\* list; a loop with a no-reference ifg is rated neither good nor bad by the
\* 3rd pass, and the masks and counts of the 4th pass are what they would be
\* without the loops that hold a no-reference ifg.
C17_NoRefExcluded ==
  /\ NoRefDone =>
       \A e \in ifgdates \ bad_ifg :
         IF e \in noref_ifg
         THEN \A p \in RefPix(refarea) : IsNaN(read_unw_main(e)[p])
         ELSE \E p \in RefPix(refarea) : ~IsNaN(read_unw_main(e)[p])
  /\ Unwritten3 =>
       \A l \in Aloop : HasNoRef(l) =>
         /\ loop_ph_rms_ifg2[l].kind = "nan"
         /\ l \notin BadLoops3 /\ l \notin GoodLoops3
  /\ pc = "nullify" =>
       LET res == Pass4Without(treat_as_bad, {l \in Aloop : HasNoRef(l)})
       IN  /\ da = res.da
           /\ ns_loop_err = res.ns_loop_err1
           /\ ns_loop_all = res.ns_loop_all
           /\ ns_loop_bad = res.ns_loop_bad

\* the triangles of the network: three epochs whose three ifgs exist
Triangles ==
  {t \in Epochs \X Epochs \X Epochs :
     /\ t[1] < t[2] /\ t[2] < t[3]
     /\ {<<t[1], t[2]>>, <<t[2], t[3]>>, <<t[1], t[3]>>} \subseteq ifgdates}

ConfigError == pc = "rejected" \/ (pc = "crashed" /\ err = "TypeError")

\* C19: a run with a configuration error ends before any processing: it has
\* not created, moved or removed an output directory, has rated no loop and
\* has rewritten no raster.
C19_ConfigErrorBeforeProcessing ==
  ConfigError =>
    /\ pc = "rejected"
    /\ ~outdirs
    /\ loop_ph_rms_ifg = EmptyFn /\ loop_ph_rms_ifg2 = EmptyFn
    /\ unw = unw_before /\ ori = ori_before /\ written = {}

\* the loops processed by the 4th pass whose residual at pixel p is valid
\* and at least the nullification threshold in magnitude
ErrorVotes(p) ==
  {l \in Aloop : /\ ~Skip4(l) /\ ~IsNaN(LoopPh4(l)[p])
                 /\ Abs(LoopPh4(l)[p]) >= nullify_threshold * RefScale}

Votes == [ns_loop_all |-> ns_loop_all, ns_loop_bad |-> ns_loop_bad]
\* the ifgs of loop l whose bad fraction at pixel p is strictly greater than
\* that of each of the two other ifgs of the loop
StrictlyWorst(l, p) ==
  {e \in LoopIfgs(l) :
     \A f \in LoopIfgs(l) \ {e} : RatioLess(Ratio(Votes, f, p), Ratio(Votes, e, p))}

\* C21: for every loop and pixel the attribution downgrades the mask of an
\* ifg of the loop exactly when the bad fraction of that ifg is strictly
\* greater than that of each of the two others; on a tie for the highest
\* fraction, and when all three fractions are zero, no mask is downgraded.
C21_AttributionStrictMax ==
  pc = "nullify" =>
    \A l \in Aloop : \A p \in Pix : Blamed(l, Votes, p) = StrictlyWorst(l, p)

\* the loops that hold an ifg of the final bad list
BadSetLoops == {l \in Aloop : LoopIfgs(l) \cap bad_ifg_all # {}}

\* C22: no loop that holds an ifg of the final bad list influences the mask
\* of any ifg: the vote counts and the masks returned by the 4th pass, after
\* both the vote accumulation and the attribution, are those obtained when
\* such loops are left out of both.
C22_BadLoopsWithoutInfluence ==
  pc = "nullify" =>
    LET res == Pass4Without(treat_as_bad, BadSetLoops)
    IN  /\ \A e \in ifgdates : da[e] = res.da[e]
        /\ \A e \in ifgdates : ns_loop_all[e] = res.ns_loop_all[e]
        /\ \A e \in ifgdates : ns_loop_bad[e] = res.ns_loop_bad[e]
\* the vote accumulation alone is free of such loops
C22_VotesWithoutBadLoops ==
  pc = "nullify" =>
    LET res == Pass4Without(treat_as_bad, BadSetLoops)
    IN  /\ ns_loop_err = res.ns_loop_err1
        /\ ns_loop_all = res.ns_loop_all
        /\ ns_loop_bad = res.ns_loop_bad
        /\ treat_as_bad => da = res.da

\* the orders in which the loops can be visited
LoopOrders ==
  {s \in [1..n_loop -> Aloop] : \A i, j \in 1..n_loop : s[i] = s[j] => i = j}
RECURSIVE VotesInOrder(_, _, _, _)
VotesInOrder(s, i, acc, tab) ==
  IF i > Len(s) THEN acc ELSE VotesInOrder(s, i + 1, Step4a(s[i], acc, tab), tab)
RECURSIVE AttributeInOrder(_, _, _)
AttributeInOrder(s, i, acc) ==
  IF i > Len(s) THEN acc ELSE AttributeInOrder(s, i + 1, Step4b(s[i], acc))
\* the 4th pass with the loops visited in order s, by both of its loops
Pass4InOrder(s, tab) ==
  AttributeInOrder(s, 1,
    VotesInOrder(s, 1, [da |-> InitDa(tab), ns_loop_all |-> ZeroCube,
                        ns_loop_bad |-> ZeroCube,
                        ns_loop_err1 |-> Tab([p \in Pix |-> 0])], tab))
\* the loops of ifg e that the vote loop processes
Processed(e) == {l \in LoopsOf(e) : ~Skip4(l)}

\* C23: the 4th pass accumulates, then decides: every attribution is made
\* with the vote counts of all processed loops (for each ifg and pixel the
\* number of processed loops with a valid residual, and of those that
\* failed), and the masks and counts returned are the same for every order
\* in which the loops are visited.
C23_AccumulateThenDecide ==
  pc = "nullify" =>
    /\ \A e \in ifgdates : \A p \in Pix :
         /\ ns_loop_all[e][p] =
              Cardinality({l \in Processed(e) : ~IsNaN(LoopPh4(l)[p])})
         /\ ns_loop_bad[e][p] =
              Cardinality({l \in Processed(e) : ~IsOk(LoopPh4(l), p)})
         /\ da[e][p] = (/\ Accumulate4(treat_as_bad).da[e][p]
                        /\ \A l \in LoopsOf(e) : e \notin Blamed(l, Votes, p))
    /\ \A s \in LoopOrders :
         LET res == Pass4InOrder(s, treat_as_bad)
         IN  /\ da = res.da
             /\ ns_loop_all = res.ns_loop_all
             /\ ns_loop_bad = res.ns_loop_bad
             /\ ns_loop_err = res.ns_loop_err1
\* an ifg with a failed and a closing loop at a pixel whose mask the
\* attribution has decided, in a network of at least four loops
C23_Witness ==
  /\ pc = "nullify"
  /\ n_loop >= 4
  /\ \E e \in ifgdates : \E p \in Pix :
       /\ ns_loop_bad[e][p] >= 1
       /\ ns_loop_all[e][p] > ns_loop_bad[e][p]
       /\ Accumulate4(treat_as_bad).da[e][p]
       /\ ~da[e][p]

\* the least number of bad loops at a pixel of the raster
RasterMin == MinOf({ns_bad_loop[p] : p \in Pix})
\* the pixels kept by mask1 and by mask2 at threshold m
Kept(m) == {p \in Pix : Mask1(p) /\ ns_bad_loop[p] = m}

\* C24: in the reference selection the threshold on the number of bad loops
\* starts at the least value of the raster and is raised by one per step
\* (every value below the final one has been tried and kept no pixel); the
\* escalation ends, within the range of the raster, with a non-empty set of
\* pixels that have the greatest number of valid ifgs and a number of bad
\* loops equal to the threshold.
C24_EscalationTerminates ==
  (pc = "ref" /\ n_loop > 0) =>
    /\ min_ns_bad_loop >= RasterMin
    /\ min_ns_bad_loop <= MaxOf({ns_bad_loop[p] : p \in Pix})
    /\ \A m \in RasterMin..(min_ns_bad_loop - 1) : Kept(m) = {}
    /\ Kept(min_ns_bad_loop) # {}
    /\ \A p \in Pix : (Mask1(p) /\ Mask2(p)) <=> p \in Kept(min_ns_bad_loop)
\* the threshold has been raised twice
C24_Witness ==
  /\ pc = "ref" /\ n_loop > 0
  /\ min_ns_bad_loop >= RasterMin + 2

\* the ifgs left once the final bad list is excluded
KeptIfgs == ifgdates \ bad_ifg_all

\* C25: once the bad ifgs are excluded the loops are those of the ifgs that
\* are left, and so are the ifgs without a loop: the loops processed by the
\* 4th pass are the triangles of the ifgs left, and an ifg left is in the
\* no-loop list exactly when no triangle of the ifgs left holds it.
C25_LoopsOfReducedSet ==
  pc \in {"pass4", "nullify", "done"} =>
    /\ {l \in Aloop : ~Skip4(l)} = make_loop_matrix(KeptIfgs)
    /\ \A e \in KeptIfgs :
         e \in no_loop_ifg <=> \A l \in make_loop_matrix(KeptIfgs) : e \notin LoopIfgs(l)
\* the part that holds: the loops processed are those of the ifgs left, and
\* the no-loop list is that of the ifgs the run started from
C25_LoopsReducedNoLoopNot ==
  pc \in {"pass4", "nullify", "done"} =>
    /\ {l \in Aloop : ~Skip4(l)} = make_loop_matrix(KeptIfgs)
    /\ no_loop_ifg = {e \in ifgdates : LoopsOf(e) = {}}

\* the 4th pass has built the mask cube and has stopped in its first
\* processed loop, before any merge
CubeUntouched == pc = "crashed" /\ err = "TypeError" /\ DOMAIN da = ifgdates
\* every pixel of every ifg for which no loop has been applied holds b
DefaultIs(b) ==
  /\ CubeUntouched => \A e \in ifgdates : \A p \in Pix : da[e][p] = b
  /\ pc = "nullify" =>
       \A e \in ifgdates : Processed(e) = {} => \A p \in Pix : da[e][p] = b

\* C26 as stated: before any loop has been applied in the 4th pass every
\* pixel of the mask is supported (True) under the gentle policy and
\* unsupported (False) under the aggressive policy.
C26_DefaultAsStated == DefaultIs(~treat_as_bad)

\* C26: before any loop has been applied in the 4th pass the mask holds the
\* value of the policy flag: every pixel is unsupported (False) under the
\* gentle policy and supported (True) under the aggressive policy, and the
\* mask of an ifg with no processed loop still holds that value when the
\* pass returns.
C26_PolicyDefault == DefaultIs(treat_as_bad)
\* the gentle policy, the cube built and no loop applied yet
C26_Witness == CubeUntouched /\ ~treat_as_bad /\ ifgdates # {}

\* the 1-based place of date d in a list of dates
PlaceOf(d, dates) == CHOOSE i \in DOMAIN dates : dates[i] = d

\* C27: in the file written by merge_cum_files_continuous_accumulate the
\* dates are the increasing list, without repetition, of the dates of the
\* old and of the new file, and for every date of the old file the values
\* of cum and bperp at the place of that date in the list are those of the
\* old file at that date, whatever the dates of the new file.
C27_MergeKeepsOld ==
  f_out # AbsentFile =>
    /\ Range(f_out.imdates) = Range(f_old.imdates) \cup Range(f_new.imdates)
    /\ \A i, j \in DOMAIN f_out.imdates : i < j => f_out.imdates[i] < f_out.imdates[j]
    /\ \A i \in DOMAIN f_old.imdates :
         /\ f_out.cum[PlaceOf(f_old.imdates[i], f_out.imdates)] = f_old.cum[i]
         /\ f_out.bperp[PlaceOf(f_old.imdates[i], f_out.imdates)] = f_old.bperp[i]
\* the parts that hold: the list of dates, and the old values when no new
\* date comes before an old one
C27_MergeKeepsOldWhenAppended ==
  f_out # AbsentFile =>
    /\ Range(f_out.imdates) = Range(f_old.imdates) \cup Range(f_new.imdates)
    /\ \A i, j \in DOMAIN f_out.imdates : i < j => f_out.imdates[i] < f_out.imdates[j]
    /\ (\A d \in Range(f_new.imdates) \ Range(f_old.imdates) :
          \A o \in Range(f_old.imdates) : o < d)
         => \A i \in DOMAIN f_old.imdates :
              /\ f_out.cum[PlaceOf(f_old.imdates[i], f_out.imdates)] = f_old.cum[i]
              /\ f_out.bperp[PlaceOf(f_old.imdates[i], f_out.imdates)] = f_old.bperp[i]

\* a raster value that is data: neither the 0 of the input nor nan
HasData(v) == v # 0 /\ ~IsNaN(v)

\* C28: every pixel that the nullification overwrites has evidence: when the
\* masks are final, every unsupported pixel of an ifg that is to be
\* rewritten has a processed loop through the ifg with a valid residual at
\* the pixel that is not below the nullification threshold, and holds data
\* in the current raster; after the nullification the rewritten ifgs are
\* those ifgs, and each of their unsupported pixels is nan and held data
\* before.
C28_NullifiedHasEvidence ==
  /\ pc = "nullify" =>
       \A e \in ToNullify(da) : \A p \in Pix :
         ~da[e][p] =>
           /\ \E l \in Touching(e, p) : ~Clean(l, p)
           /\ HasData(unw[e][p])
  /\ (RunEnded /\ nullify) =>
       /\ written = ToNullify(da)
       /\ \A e \in written : \A p \in Pix :
            ~da[e][p] => (IsNaN(unw[e][p]) /\ HasData(unw_before[e][p]))
\* a pixel with data set to nan under the gentle policy, in a run that
\* found an ifg already nullified by an earlier run
C28_Witness ==
  /\ RunEnded /\ nullify /\ ~treat_as_bad
  /\ \E e \in written : \E p \in Pix :
       ~da[e][p] /\ IsNaN(unw[e][p]) /\ HasData(unw_before[e][p])
  /\ DOMAIN ori_before # {}

\* the ifgs that the 4th pass has not tested: those of the final bad list
\* and those without a processed loop
Untested == {e \in ifgdates : e \in bad_ifg_all \/ Processed(e) = {}}

\* C29: under both policies the raster of an ifg of the final bad list, or
\* of an ifg with no processed loop, is not rewritten by the run and no
\* preserved original is created for it (nor is an existing one changed).
C29_UntestedNeverRewritten ==
  RunEnded =>
    \A e \in Untested :
      /\ e \notin written
      /\ unw[e] = unw_before[e]
      /\ (e \in DOMAIN ori) = (e \in DOMAIN ori_before)
      /\ e \in DOMAIN ori => ori[e] = ori_before[e]
\* an aggressive run that has rewritten an ifg and created its original,
\* with a bad ifg and with a retained ifg that has no processed loop
C29_Witness ==
  /\ RunEnded /\ nullify /\ treat_as_bad
  /\ \E e \in written : e \in DOMAIN ori /\ e \notin DOMAIN ori_before
  /\ bad_ifg_all # {}
  /\ \E e \in Untested : e \notin bad_ifg_all /\ LoopsOf(e) # {}

\* C30: in the vote loop the stored counters of an ifg and pixel satisfy
\* 0 <= bad <= total, the stored total and bad counts are the numbers of
\* processed loops with a residual and of failed loops, and the stored
\* per-pixel count of loop errors is the number of processed loops that
\* failed, however many loops the ifg and the pixel belong to.
C30_CountersExact ==
  /\ 0 <= fan.ns_loop_bad
  /\ fan.ns_loop_bad <= fan.ns_loop_all
  /\ fan.ns_loop_all = fan.valid
  /\ fan.ns_loop_bad = fan.failed
  /\ fan.ns_loop_err1 = fan.failed
\* the same while no count exceeds what its type holds
C30_CountersExactWhileSmall ==
  /\ fan.valid <= 127 =>
       /\ 0 <= fan.ns_loop_bad
       /\ fan.ns_loop_bad <= fan.ns_loop_all
       /\ fan.ns_loop_all = fan.valid
       /\ fan.ns_loop_bad = fan.failed
  /\ fan.failed <= 255 => fan.ns_loop_err1 = fan.failed
  /\ pc = "nullify" =>
       /\ \A e \in ifgdates : \A p \in Pix :
            /\ 0 <= ns_loop_bad[e][p] /\ ns_loop_bad[e][p] <= ns_loop_all[e][p]
       /\ \A p \in Pix :
            ns_loop_err[p] =
              Cardinality({l \in Aloop : ~Skip4(l) /\ ~IsOk(LoopPh4(l), p)})

====
